---- MODULE Spec2Model ----
(***************************************************************************)
(* A model of the interview-transcript pipeline of process_transcript.py   *)
(* and utils.py: the batch loop, the moderation gate, the tenacity retry    *)
(* wrapper around the two outbound calls, and the four-request chat          *)
(* protocol with its JSON merge, file write and tool-call dispatch.          *)
(*                                                                           *)
(* Strings whose characters matter (dictionary values, paths, dates) are     *)
(* sequences of one-character strings, so that concatenation and parsing     *)
(* are computed.  Dictionary keys, roles and labels are plain strings.       *)
(* A Python dict is a sequence of <<key, value>> pairs with distinct keys,   *)
(* in insertion order.                                                       *)
(***************************************************************************)
EXTENDS Integers, Sequences, FiniteSets, TLC

\* ------------------------------------------------------------------ bounds
MaxFiles == 2
MaxChunks == 2
MaxToolCalls == 2
\* split_text_advanced on its own: the longest text and the largest limit drawn
MaxTextLen == 6
MaxLimit == 3

\* ----------------------------------------------------- retry policy (tenacity)
\* stop_after_attempt(3)
StopAttempts == 3
\* wait_exponential(multiplier=2, min=2, max=30, exp_base=2)
WaitMultiplier == 2
WaitMin == 2
WaitMax == 30
WaitExpBase == 2

Max2(a, b) == IF a >= b THEN a ELSE b
Min2(a, b) == IF a <= b THEN a ELSE b

RECURSIVE Pow(_, _)
Pow(b, e) == IF e = 0 THEN 1 ELSE b * Pow(b, e - 1)

\* the three exception types named by retry_if_exception_type
RetryTypes == {"APIConnectionError", "APITimeoutError", "InternalServerError"}
\* other errors the service can raise
OtherErrors == {"BadRequestError"}
ServiceErrors == RetryTypes \cup OtherErrors

retry_if_any_exception(e) == e \in ServiceErrors
retry_if_exception_type(e) == e \in RetryTypes

stop_after_attempt_off(n) == n > StopAttempts
stop_after_attempt(n) == n >= StopAttempts

wait_fixed(n) == WaitMin

\* the wait after failed attempt number n
wait_exponential(n) ==
    Max2(Max2(0, WaitMin), Min2(WaitMultiplier * Pow(WaitExpBase, n - 1), WaitMax))

\* sequences over S of length at most n
RECURSIVE SeqsUpTo(_, _)
SeqsUpTo(S, n) ==
    IF n = 0 THEN {<<>>}
    ELSE LET shorter == SeqsUpTo(S, n - 1) IN
         shorter \cup {Append(q, x) : q \in {r \in shorter : Len(r) = n - 1}, x \in S}

\* ------------------------------------------------------------ strings, dicts
\* the characters of a few literal strings
OutputDir == <<"o", "u", "t", "p", "u", "t">>
Slash == <<"/">>
Dash == <<"-">>
DotJson == <<".", "j", "s", "o", "n">>

RECURSIVE LastIndexOf(_, _)
\* the largest index at which character c occurs in s, 0 when it does not
LastIndexOf(s, c) ==
    IF Len(s) = 0 THEN 0
    ELSE IF s[Len(s)] = c THEN Len(s)
    ELSE LastIndexOf(SubSeq(s, 1, Len(s) - 1), c)

\* os.path.dirname: what precedes the last "/"
dirname(path) ==
    LET i == LastIndexOf(path, "/") IN
    IF i = 0 THEN <<>> ELSE SubSeq(path, 1, i - 1)

\* os.path.join("output", name) for a relative name
path_join(dir, name) == dir \o Slash \o name

Keys(d) == {d[i][1] : i \in 1..Len(d)}

\* d[k], defined for k in Keys(d)
DictGet(d, k) == LET i == CHOOSE j \in 1..Len(d) : d[j][1] = k IN d[i][2]

\* d[k] = v: an existing key keeps its position, a new key goes last
DictSet(d, k, v) ==
    IF k \in Keys(d)
    THEN [i \in 1..Len(d) |-> IF d[i][1] = k THEN <<k, v>> ELSE d[i]]
    ELSE Append(d, <<k, v>>)

RECURSIVE dict_update_keep(_, _)
dict_update_keep(d, e) ==
    IF Len(e) = 0 THEN d
    ELSE dict_update_keep(
             IF e[1][1] \in Keys(d) THEN d ELSE Append(d, e[1]), Tail(e))

RECURSIVE dict_update(_, _)
\* dict.update(e): every pair of e, in order, is set in d
dict_update(d, e) ==
    IF Len(e) = 0 THEN d
    ELSE dict_update(DictSet(d, e[1][1], e[1][2]), Tail(e))

\* -------------------------------------------------------------- JSON content
\* A message content: kind "none" (null), "text" (free text, not JSON),
\* "malformed" (text that is not valid JSON) or "json" (the text of a JSON
\* object, its members in text order, where a name may occur twice).
NoContent == [kind |-> "none", text |-> "", pairs |-> <<>>]
Text(t) == [kind |-> "text", text |-> t, pairs |-> <<>>]
Malformed == [kind |-> "malformed", text |-> "{", pairs |-> <<>>]
JsonText(members) == [kind |-> "json", text |-> "", pairs |-> members]

json_loads_lenient(content) == "none"

\* content.strip() followed by json.loads: the error raised, "none" when it parses
json_loads_error(content) ==
    CASE content.kind = "none" -> "AttributeError"
      [] content.kind = "json" -> "none"
      [] OTHER -> "JSONDecodeError"

\* json.loads of a JSON object text: a dict, a repeated name keeping its last value
json_loads(content) == dict_update(<<>>, content.pairs)

\* json.dumps of a dict: the object text with the dict's items in order
json_dumps(d) == JsonText(d)

NameA == <<"A">>
NameB == <<"B">>
D1 == <<"D", "1">>
Positive == <<"p", "o", "s", "i", "t", "i", "v", "e">>

\* the JSON object texts the chat service may answer with in JSON mode
JsonReplies == {
    JsonText(<< <<"candidate", NameA>>, <<"datetime", D1>> >>),
    JsonText(<< <<"candidate", NameB>> >>),
    JsonText(<< <<"sentiment", Positive>>, <<"datetime", D1>> >>) }

\* ---------------------------------------------------------------- dates
Digits == {"0", "1", "2", "3", "4", "5", "6", "7", "8", "9"}

DigitVal(c) ==
    CASE c = "0" -> 0 [] c = "1" -> 1 [] c = "2" -> 2 [] c = "3" -> 3
      [] c = "4" -> 4 [] c = "5" -> 5 [] c = "6" -> 6 [] c = "7" -> 7
      [] c = "8" -> 8 [] c = "9" -> 9

DigitChar(n) ==
    CASE n = 0 -> "0" [] n = 1 -> "1" [] n = 2 -> "2" [] n = 3 -> "3"
      [] n = 4 -> "4" [] n = 5 -> "5" [] n = 6 -> "6" [] n = 7 -> "7"
      [] n = 8 -> "8" [] n = 9 -> "9"

\* Python's None where a string is expected
NoneValue == <<"None">>

RECURSIVE CountDigits(_, _, _)
\* how many digits s holds from position pos on, at most maxN
CountDigits(s, pos, maxN) ==
    IF maxN = 0 \/ pos > Len(s) THEN 0
    ELSE IF s[pos] \notin Digits THEN 0
    ELSE 1 + CountDigits(s, pos + 1, maxN - 1)

RECURSIVE NumVal(_, _, _)
\* the number written by the n digits of s from position pos on
NumVal(s, pos, n) ==
    IF n = 0 THEN 0 ELSE NumVal(s, pos, n - 1) * 10 + DigitVal(s[pos + n - 1])

IsLeap(y) == (y % 4 = 0 /\ y % 100 # 0) \/ y % 400 = 0

DaysInMonth(y, m) ==
    IF m = 2 THEN (IF IsLeap(y) THEN 29 ELSE 28)
    ELSE IF m \in {4, 6, 9, 11} THEN 30 ELSE 31

MinYear == 1
MaxYear == 9999

\* the format "%Y-%m-%dT%H:%M:%SZ": directives and literals
DateFormat == <<"%Y", "-", "%m", "-", "%d", "T", "%H", ":", "%M", ":", "%S", "Z">>

\* [ok, val, next] for at most maxN digits from position pos on, at least minN
\* of them and a value in lo..hi.  A directive's pattern takes as many digits
\* as there are (up to its width) when a literal follows it in the format.
Ranged(n, v, pos, minN, lo, hi) ==
    [ok |-> n >= minN /\ v >= lo /\ v <= hi, val |-> v, next |-> pos + n]

Counted(s, pos, n, minN, lo, hi) == Ranged(n, NumVal(s, pos, n), pos, minN, lo, hi)

DigitsField(s, pos, minN, maxN, lo, hi) ==
    Counted(s, pos, CountDigits(s, pos, maxN), minN, lo, hi)

\* what a directive matches at position pos: %Y four digits, the others one or
\* two digits in their range; %d also takes a space followed by one of 1..9
DirectiveField(directive, s, pos) ==
    CASE directive = "%Y" -> DigitsField(s, pos, 4, 4, 0, 9999)
      [] directive = "%m" -> DigitsField(s, pos, 1, 2, 1, 12)
      [] directive = "%d" ->
             IF pos + 1 <= Len(s) /\ s[pos] = " " /\ s[pos + 1] \in (Digits \ {"0"})
             THEN [ok |-> TRUE, val |-> DigitVal(s[pos + 1]), next |-> pos + 2]
             ELSE DigitsField(s, pos, 1, 2, 1, 31)
      [] directive = "%H" -> DigitsField(s, pos, 1, 2, 0, 23)
      [] directive = "%M" -> DigitsField(s, pos, 1, 2, 0, 59)
      [] directive = "%S" -> DigitsField(s, pos, 1, 2, 0, 61)

\* the characters a literal of the format matches: the pattern ignores case
LiteralChars(c) ==
    CASE c = "T" -> {"T", "t"}
      [] c = "Z" -> {"Z", "z"}
      [] OTHER -> {c}

NoDate == [err |-> "ValueError", Y |-> 0, m |-> 0, d |-> 0, H |-> 0, M |-> 0, S |-> 0]

RECURSIVE MatchFormat(_, _, _, _)
\* a directive having matched f, the rest of the format is matched after it
Matched(s, k, acc, f) ==
    IF f.ok
    THEN MatchFormat(s, f.next, k + 1, [acc EXCEPT ![SubSeq(DateFormat[k], 2, 2)] = f.val])
    ELSE NoDate

\* the format matched from its k-th element on against s from position pos on
MatchFormat(s, pos, k, acc) ==
    IF k > Len(DateFormat)
    THEN IF pos = Len(s) + 1 THEN [acc EXCEPT !.err = "none"] ELSE NoDate
    ELSE IF Len(DateFormat[k]) = 1
    THEN IF pos <= Len(s) /\ s[pos] \in LiteralChars(DateFormat[k])
         THEN MatchFormat(s, pos + 1, k + 1, acc)
         ELSE NoDate
    ELSE Matched(s, k, acc, DirectiveField(DateFormat[k], s, pos))

\* the fields found must make a date: year 1 at least, a day of the month, a
\* second below 60
CheckedDate(t) ==
    IF t.err # "none" THEN NoDate
    ELSE IF t.Y < MinYear \/ t.d > DaysInMonth(t.Y, t.m) \/ t.S > 59 THEN NoDate
    ELSE t

\* datetime.strptime(date_str, "%Y-%m-%dT%H:%M:%SZ"): [err, Y, m, d, H, M, S]
strptime(s) ==
    IF s = NoneValue THEN [NoDate EXCEPT !.err = "TypeError"]
    ELSE CheckedDate(MatchFormat(s, 1, 1, NoDate))

RECURSIVE AddDays(_, _)
\* date + timedelta(days=n), the time of day kept
AddDays(t, n) ==
    IF n = 0 THEN t
    ELSE IF t.d < DaysInMonth(t.Y, t.m) THEN AddDays([t EXCEPT !.d = t.d + 1], n - 1)
    ELSE IF t.m < 12 THEN AddDays([t EXCEPT !.d = 1, !.m = t.m + 1], n - 1)
    ELSE IF t.Y < MaxYear THEN AddDays([t EXCEPT !.d = 1, !.m = 1, !.Y = t.Y + 1], n - 1)
    ELSE [t EXCEPT !.err = "OverflowError"]

Pad2(n) == <<DigitChar(n \div 10), DigitChar(n % 10)>>
Pad4(n) == <<DigitChar(n \div 1000), DigitChar((n \div 100) % 10),
             DigitChar((n \div 10) % 10), DigitChar(n % 10)>>

\* new_date.strftime("%Y-%m-%dT%H:%M:%SZ")
strftime(t) ==
    Pad4(t.Y) \o <<"-">> \o Pad2(t.m) \o <<"-">> \o Pad2(t.d) \o <<"T">>
        \o Pad2(t.H) \o <<":">> \o Pad2(t.M) \o <<":">> \o Pad2(t.S) \o <<"Z">>

FollowUpDays == 7

\* new_date.strftime(date_format), when the sum did not overflow
Formatted(new_date) ==
    IF new_date.err # "none" THEN [err |-> new_date.err, date |-> <<>>]
    ELSE [err |-> "none", date |-> strftime(new_date)]

\* date_object + timedelta(days=7), when the string parsed
Shifted(date_object) ==
    IF date_object.err # "none" THEN [err |-> date_object.err, date |-> <<>>]
    ELSE Formatted(AddDays(date_object, FollowUpDays))

\* get_scheduled_date(date_str): [err, date]
get_scheduled_date(date_str) == Shifted(strptime(date_str))

\* args.get(key)
DictGetOrNone(d, k) == IF k \in Keys(d) THEN DictGet(d, k) ELSE NoneValue

\* the response dict of schedule_follow_up, sentiment added when it is not None
FollowUpResponse(interviewer, candidate, new_date_str, sentiment) ==
    IF sentiment # NoneValue
    THEN << <<"interviewer", interviewer>>, <<"candidate", candidate>>,
            <<"schedule_date", new_date_str>>, <<"sentiment", sentiment>> >>
    ELSE << <<"interviewer", interviewer>>, <<"candidate", candidate>>,
            <<"schedule_date", new_date_str>> >>

Scheduled(interviewer, candidate, new_date, sentiment) ==
    IF new_date.err # "none" THEN [err |-> new_date.err, content |-> NoContent]
    ELSE [err |-> "none",
          content |-> json_dumps(FollowUpResponse(interviewer, candidate,
                                                  new_date.date, sentiment))]

\* schedule_follow_up(interviewer, candidate, interview_date, sentiment): [err, content]
schedule_follow_up(interviewer, candidate, interview_date, sentiment) ==
    Scheduled(interviewer, candidate, get_scheduled_date(interview_date), sentiment)

\* ------------------------------------------------------------------ chunker
\* the pieces of re.split(r'\n\n|\n(?!\n)', text): at a newline the pattern
\* takes two newlines when a second one follows and one otherwise; the text
\* between two matches is a piece, an empty one included.  `piece` is the
\* piece being read, `acc` the pieces before it.
RECURSIVE ReSplit(_, _, _, _)
ReSplit(s, i, piece, acc) ==
    IF i > Len(s) THEN Append(acc, piece)
    ELSE IF s[i] # "\n" THEN ReSplit(s, i + 1, Append(piece, s[i]), acc)
    ELSE IF i + 1 <= Len(s) /\ s[i + 1] = "\n" THEN ReSplit(s, i + 2, <<>>, Append(acc, piece))
    ELSE ReSplit(s, i + 1, <<>>, Append(acc, piece))

\* chunk.strip() == ''
IsBlank(chunk) == \A i \in 1..Len(chunk) : chunk[i] = " "

\* TextWrapper._split for letters and spaces: the runs of spaces and the words
\* between them, in order
RECURSIVE SplitChunks(_, _, _)
SplitChunks(s, i, acc) ==
    IF i > Len(s) THEN acc
    ELSE IF acc # <<>> /\ (acc[Len(acc)][1] = " ") = (s[i] = " ")
    THEN SplitChunks(s, i + 1, [acc EXCEPT ![Len(acc)] = Append(acc[Len(acc)], s[i])])
    ELSE SplitChunks(s, i + 1, Append(acc, <<s[i]>>))

\* ''.join(cur_line)
RECURSIVE Joined(_)
Joined(cur_line) == IF cur_line = <<>> THEN <<>> ELSE cur_line[1] \o Joined(Tail(cur_line))

\* drop_whitespace: a blank chunk at the end of the line is dropped
DropBlankTail(cur_line) ==
    IF cur_line # <<>> /\ IsBlank(cur_line[Len(cur_line)])
    THEN SubSeq(cur_line, 1, Len(cur_line) - 1)
    ELSE cur_line

\* `if cur_line: lines.append(''.join(cur_line))`
AppendLine(lines, cur_line) ==
    IF cur_line = <<>> THEN lines ELSE Append(lines, Joined(cur_line))

RECURSIVE WrapChunks(_, _, _)
\* the end of one pass of the outer loop of TextWrapper._wrap_chunks
EndLine(chunks, cur_line, lines, width) ==
    WrapChunks(chunks, AppendLine(lines, DropBlankTail(cur_line)), width)

\* TextWrapper._handle_long_word with break_long_words=True, the default: the
\* chunk too long for any line is cut, its first width - cur_len characters
\* end the current line and the rest stays first of the chunks
handle_long_word(chunks, cur_line, cur_len, lines, width) ==
    EndLine(<<SubSeq(chunks[1], width - cur_len + 1, Len(chunks[1]))>> \o Tail(chunks),
            Append(cur_line, SubSeq(chunks[1], 1, width - cur_len)),
            lines, width)

RECURSIVE FillLine(_, _, _, _, _)
\* the inner loop: chunks go on the current line while they fit
FillLine(chunks, cur_line, cur_len, lines, width) ==
    IF chunks # <<>> /\ cur_len + Len(chunks[1]) <= width
    THEN FillLine(Tail(chunks), Append(cur_line, chunks[1]), cur_len + Len(chunks[1]),
                  lines, width)
    ELSE IF chunks # <<>> /\ Len(chunks[1]) > width
    THEN handle_long_word(chunks, cur_line, cur_len, lines, width)
    ELSE EndLine(chunks, cur_line, lines, width)

\* TextWrapper._wrap_chunks: line after line; a blank chunk that would start a
\* line other than the first is dropped
WrapChunks(chunks, lines, width) ==
    IF chunks = <<>> THEN lines
    ELSE IF lines # <<>> /\ IsBlank(chunks[1])
    THEN FillLine(Tail(chunks), <<>>, 0, lines, width)
    ELSE FillLine(chunks, <<>>, 0, lines, width)

\* textwrap.wrap(paragraph, length_limit), for a limit above 0
textwrap_wrap(paragraph, width) == WrapChunks(SplitChunks(paragraph, 1, <<>>), <<>>, width)

\* ------------------------------------------------------------------ messages
NoToolCalls == [none |-> TRUE, calls |-> <<>>]
ToolCallList(calls) == [none |-> FALSE, calls |-> calls]

\* a dict message {"role": ..., "content": ...}
DictMessage(role, content) ==
    [role |-> role, content |-> content, tool_calls |-> NoToolCalls,
     tool_call_id |-> 0, name |-> ""]

\* response.choices[0].message: a ChatCompletionMessage of the assistant
AssistantMessage(content, tool_calls) ==
    [role |-> "assistant", content |-> content, tool_calls |-> tool_calls,
     tool_call_id |-> 0, name |-> ""]

SystemPrompt == DictMessage("system", Text("system_prompt.txt"))
UserPrompt01 == DictMessage("user", Text("user_prompt_01.txt + transcript"))
UserPrompt02 == DictMessage("user", Text("user_prompt_02.txt"))
FollowUpPrompt == DictMessage("user", Text("Please schedule a follow-up call"))

\* ---------------------------------------------------------------- tool calls
GoodDate == <<"2", "0", "2", "4", "-", "0", "2", "-", "2", "5", "T",
              "0", "0", ":", "0", "0", ":", "0", "0", "Z">>
BadDate == <<"s", "o", "o", "n">>
Interviewer == <<"I">>

\* function.arguments of a schedule_follow_up call the service may produce
ScheduleArguments == {
    JsonText(<< <<"interviewer", Interviewer>>, <<"candidate", NameA>>,
                <<"interview_date", GoodDate>> >>),
    JsonText(<< <<"interviewer", Interviewer>>, <<"candidate", NameA>>,
                <<"interview_date", GoodDate>>, <<"sentiment", Positive>> >>),
    JsonText(<< <<"interviewer", Interviewer>>, <<"candidate", NameA>>,
                <<"interview_date", BadDate>> >>),
    Malformed }

\* a tool call without its id: the function's name and arguments
FunctionCalls ==
    {[name |-> "schedule_follow_up", arguments |-> a] : a \in ScheduleArguments}
        \cup {[name |-> "other_function", arguments |-> JsonText(<<>>)]}

\* the tool calls of one reply: the call at position i has id i
WithIds(fs) == [i \in 1..Len(fs) |-> [id |-> i, function |-> fs[i]]]

\* get_follow_up_function_desc(): the names of the functions described
get_follow_up_function_desc == <<"schedule_follow_up">>

\* ------------------------------------------------------------ chat request
NoTools == <<>>

\* chat_completions_request builds api_params from its arguments
ApiParams(msgs, json_mode, tools) ==
    [messages |-> msgs,
     temperature |-> 0,
     response_format |-> IF json_mode THEN "json_object" ELSE "unset",
     tools |-> tools,
     tool_choice |-> IF tools # NoTools THEN "auto" ELSE "unset"]

\* the arguments process_transcript passes at each of its call sites
RequestAt(at, msgs) ==
    CASE at = "chat3" -> ApiParams(msgs, TRUE, get_follow_up_function_desc)
      [] at = "chat4" -> ApiParams(msgs, FALSE, NoTools)
      [] OTHER -> ApiParams(msgs, TRUE, NoTools)

\* response.choices[0].message: what the service may answer to a request
ServiceReplies(params) ==
    IF params.tools # NoTools
    THEN {AssistantMessage(NoContent, ToolCallList(WithIds(fs))) :
              fs \in SeqsUpTo(FunctionCalls, MaxToolCalls)}
         \cup {AssistantMessage(JsonText(<<>>), NoToolCalls)}
    ELSE IF params.response_format = "json_object"
    THEN {AssistantMessage(c, NoToolCalls) : c \in JsonReplies \cup {Malformed, NoContent}}
    ELSE {AssistantMessage(Text("narration"), NoToolCalls)}

\* ---------------------------------------------------------------- the files
\* os.path.join("output", f"{info_object['candidate']}-{info_object['datetime']}.json")
OutputPath(candidate, datetime) ==
    path_join(OutputDir, candidate \o Dash \o datetime \o DotJson)

\* what the output directory may hold before the run
InitialOutputs ==
    {{}, {[path |-> OutputPath(NameB, D1), content |-> json_dumps(<<>>)]}}

\* open(file_path, 'w') and write: the file at path now holds content
WriteFile(fs, path, content) ==
    {f \in fs : f.path # path} \cup {[path |-> path, content |-> content]}

\* ------------------------------------------------------------------- state
VARIABLES
    files,        \* os.listdir(directory_path): per entry, whether it ends in ".txt"
    fileIdx,      \* entries of files[:1] the batch loop has gone through
    processed,    \* the entries process_transcript was called for, in order
    pc,           \* where the program is
    chunks,       \* split_text_advanced(text) in has_moderation_issues: per chunk,
                  \* whether moderation flags it
    chunkIdx,     \* the chunk the moderation loop is at
    attempt,      \* tenacity's attempt_number of the wrapped call in progress
    callLog,      \* the service calls of the wrapped call in progress, or of the one that raised
    requests,     \* the chat requests issued for the transcript, one entry per wrapped call
    messages,     \* the message list of process_transcript
    info_object,  \* the dict parsed from the first reply, then merged
    tool_calls,   \* third_response.tool_calls
    toolIdx,      \* the tool call the dispatch loop is at
    dirs,         \* directories that exist
    outputFiles,  \* the files of the output directory: a set of [path, content]
    written,      \* what save_file wrote for the transcript: [path, content] each
    stdout,       \* what was printed
    raised,       \* the exception that ended the run, and where
    exitStatus,   \* the process exit status, -1 while running
    \* schedule_follow_up and split_text_advanced called on their own
    callDate,         \* the interview_date argument of schedule_follow_up
    callResponse,     \* what schedule_follow_up returned or raised: [err, content]
    splitText,        \* the text argument of split_text_advanced
    splitLimit,       \* its length_limit argument
    splitParagraphs,  \* the paragraphs its loop has not wrapped yet
    splitLines        \* its list `lines`, the chunks

\* the state of process_transcript and of the batch loop
runVars == <<files, fileIdx, processed, chunks, chunkIdx, attempt, callLog,
             requests, messages, info_object, tool_calls, toolIdx, dirs,
             outputFiles, written, stdout, raised, exitStatus>>

\* the state of a call of schedule_follow_up or of split_text_advanced
callVars == <<callDate, callResponse, splitText, splitLimit, splitParagraphs, splitLines>>

vars == <<pc, runVars, callVars>>

NoException == [exc |-> "none", at |-> "none"]

\* no call of schedule_follow_up made yet
NoResponse == [err |-> "pending", content |-> NoContent]

\* the batch run: neither function is called on its own
NoCall ==
    /\ callDate = <<>>
    /\ callResponse = NoResponse
    /\ splitText = <<>>
    /\ splitLimit = 0
    /\ splitParagraphs = <<>>
    /\ splitLines = <<>>

Init ==
    /\ NoCall
    /\ files \in SeqsUpTo(BOOLEAN, MaxFiles)
    /\ fileIdx = 0
    /\ processed = <<>>
    /\ pc = "main"
    /\ chunks = <<>>
    /\ chunkIdx = 1
    /\ attempt = 1
    /\ callLog = <<>>
    /\ requests = <<>>
    /\ messages = <<>>
    /\ info_object = <<>>
    /\ tool_calls = NoToolCalls
    /\ toolIdx = 1
    /\ \E before \in InitialOutputs :
           /\ outputFiles = before
           /\ dirs = {dirname(f.path) : f \in before}
    /\ written = <<>>
    /\ stdout = <<>>
    /\ raised = NoException
    /\ exitStatus = -1

\* files[:1]
FirstFiles == SubSeq(files, 1, Min2(1, Len(files)))

\* sys.exit(1) in process_transcript: the status of a moderation rejection
ModerationExitStatus == 1
\* the status the interpreter ends with on an exception nothing catches; the
\* batch loop has no try/except around process_transcript
TracebackExitStatus == 1

\* An exception nothing catches ends the process: SystemExit with the status
\* given to sys.exit, any other one with the traceback and the interpreter's
\* status.
Uncaught(exc) ==
    /\ raised' = [exc |-> exc, at |-> pc]
    /\ exitStatus' = IF exc = "SystemExit" THEN ModerationExitStatus ELSE TracebackExitStatus
    /\ pc' = "terminated"

\* ---------------------------------------------------------- the retry wrapper
\* One entry of callLog: a call of the service made inside the wrapped call.
LogEntry(outcome, chunk, wait) ==
    [attempt |-> attempt, chunk |-> chunk, outcome |-> outcome, wait |-> wait]

\* tenacity, the wrapped function having raised e in attempt number `attempt`:
\* an exception of another type is re-raised, the last allowed attempt ends in
\* RetryError, and otherwise the wrapper sleeps and calls the function again.
Failed(e, chunk) ==
    IF ~retry_if_exception_type(e)
    THEN /\ callLog' = Append(callLog, LogEntry(e, chunk, 0))
         /\ Uncaught(e)
         /\ UNCHANGED attempt
    ELSE IF stop_after_attempt(attempt)
    THEN /\ callLog' = Append(callLog, LogEntry(e, chunk, 0))
         /\ Uncaught("RetryError")
         /\ UNCHANGED attempt
    ELSE /\ callLog' = Append(callLog, LogEntry(e, chunk, wait_exponential(attempt)))
         /\ attempt' = attempt + 1
         /\ UNCHANGED <<pc, raised, exitStatus>>

\* ------------------------------------------------------------ the batch loop
\* for file in files[:1]: an entry that does not end in ".txt" is passed over
BatchSkip ==
    /\ UNCHANGED callVars
    /\ pc = "main"
    /\ fileIdx < Len(FirstFiles)
    /\ ~files[fileIdx + 1]
    /\ fileIdx' = fileIdx + 1
    /\ UNCHANGED <<files, processed, pc, chunks, chunkIdx, attempt, callLog, requests,
                   messages, info_object, tool_calls, toolIdx, dirs, outputFiles, written,
                   stdout, raised, exitStatus>>

\* process_transcript(utils.open_file(file_path)) up to the call of
\* has_moderation_issues, which splits the text into chunks
BatchProcess ==
    /\ UNCHANGED callVars
    /\ pc = "main"
    /\ fileIdx < Len(FirstFiles)
    /\ files[fileIdx + 1]
    /\ processed' = Append(processed, fileIdx + 1)
    /\ chunks' \in SeqsUpTo(BOOLEAN, MaxChunks)
    /\ chunkIdx' = 1
    /\ attempt' = 1
    /\ callLog' = <<>>
    /\ requests' = <<>>
    /\ written' = <<>>
    /\ messages' = <<>>
    /\ info_object' = <<>>
    /\ tool_calls' = NoToolCalls
    /\ toolIdx' = 1
    /\ pc' = "moderation"
    /\ UNCHANGED <<files, fileIdx, dirs, outputFiles, written, stdout, raised, exitStatus>>

\* the loop is over: the interpreter exits with status 0
BatchExit ==
    /\ UNCHANGED callVars
    /\ pc = "main"
    /\ fileIdx >= Len(FirstFiles)
    /\ pc' = "terminated"
    /\ exitStatus' = 0
    /\ UNCHANGED <<files, fileIdx, processed, chunks, chunkIdx, attempt, callLog,
                   requests, messages, info_object, tool_calls, toolIdx, dirs,
                   outputFiles, written, stdout, raised>>

\* ------------------------------------------------------- has_moderation_issues
\* client.moderations.create(input=chunk) answers: the chunk is not flagged
ModerationOk ==
    /\ UNCHANGED callVars
    /\ pc = "moderation"
    /\ chunkIdx <= Len(chunks)
    /\ ~chunks[chunkIdx]
    /\ callLog' = Append(callLog, LogEntry("ok", chunkIdx, 0))
    /\ chunkIdx' = chunkIdx + 1
    /\ UNCHANGED <<files, fileIdx, processed, pc, chunks, attempt, requests, messages,
                   info_object, tool_calls, toolIdx, dirs, outputFiles, written, stdout,
                   raised, exitStatus>>

ModerationFlaggedNoExit ==
    /\ UNCHANGED callVars
    /\ pc = "moderation"
    /\ chunkIdx <= Len(chunks)
    /\ chunks[chunkIdx]
    /\ callLog' = Append(callLog, LogEntry("flagged", chunkIdx, 0))
    /\ stdout' = stdout \o <<"Text violates content policy", "Information extracted">>
    /\ messages' = <<SystemPrompt, UserPrompt01>>
    /\ attempt' = 1
    /\ pc' = "chat1"
    /\ UNCHANGED <<files, fileIdx, processed, chunks, chunkIdx, requests, info_object,
                   tool_calls, toolIdx, dirs, outputFiles, written, raised, exitStatus>>

ModerationFlaggedNoReturn ==
    /\ UNCHANGED callVars
    /\ pc = "moderation"
    /\ chunkIdx <= Len(chunks)
    /\ chunks[chunkIdx]
    /\ callLog' = Append(callLog, LogEntry("flagged", chunkIdx, 0))
    /\ stdout' = Append(stdout, "Text violates content policy")
    /\ chunkIdx' = chunkIdx + 1
    /\ UNCHANGED <<files, fileIdx, processed, pc, chunks, attempt, requests, messages,
                   info_object, tool_calls, toolIdx, dirs, outputFiles, written,
                   raised, exitStatus>>

\* the chunk is flagged: format_moderation_response prints the report, the
\* function returns True and process_transcript calls sys.exit(1)
ModerationFlagged ==
    /\ UNCHANGED callVars
    /\ pc = "moderation"
    /\ chunkIdx <= Len(chunks)
    /\ chunks[chunkIdx]
    /\ callLog' = Append(callLog, LogEntry("flagged", chunkIdx, 0))
    /\ stdout' = Append(stdout, "Text violates content policy")
    /\ Uncaught("SystemExit")
    /\ UNCHANGED <<files, fileIdx, processed, chunks, chunkIdx, attempt, requests,
                   messages, info_object, tool_calls, toolIdx, dirs, outputFiles, written>>

\* a scan that passes over a chunk whose moderation request raised
ModerationErrorSwallowed ==
    /\ UNCHANGED callVars
    /\ pc = "moderation"
    /\ chunkIdx <= Len(chunks)
    /\ \E e \in ServiceErrors : callLog' = Append(callLog, LogEntry(e, chunkIdx, 0))
    /\ chunkIdx' = chunkIdx + 1
    /\ UNCHANGED <<files, fileIdx, processed, pc, chunks, attempt, requests, messages,
                   info_object, tool_calls, toolIdx, dirs, outputFiles, written, stdout,
                   raised, exitStatus>>

\* client.moderations.create raises: the decorator wraps the whole function,
\* so a retry calls has_moderation_issues again, from the first chunk
ModerationError ==
    /\ UNCHANGED callVars
    /\ pc = "moderation"
    /\ chunkIdx <= Len(chunks)
    /\ \E e \in ServiceErrors : Failed(e, chunkIdx)
    /\ chunkIdx' = IF pc' = "moderation" THEN 1 ELSE chunkIdx
    /\ UNCHANGED <<files, fileIdx, processed, chunks, requests, messages, info_object,
                   tool_calls, toolIdx, dirs, outputFiles, written, stdout>>

\* the loop over the chunks is over: the function returns False (its locals
\* are gone), and process_transcript prints and builds its first two messages
ModerationPassed ==
    /\ UNCHANGED callVars
    /\ pc = "moderation"
    /\ chunkIdx > Len(chunks)
    /\ stdout' = stdout \o <<"Moderation passed", "Information extracted">>
    /\ messages' = <<SystemPrompt, UserPrompt01>>
    /\ chunks' = <<>>
    /\ chunkIdx' = 1
    /\ attempt' = 1
    /\ callLog' = <<>>
    /\ pc' = "chat1"
    /\ UNCHANGED <<files, fileIdx, processed, requests, info_object, tool_calls,
                   toolIdx, dirs, outputFiles, written, raised, exitStatus>>

\* ------------------------------------------------------ chat_completions_request
ChatSites == {"chat1", "chat2", "chat3", "chat4"}

AfterChatSkipsAnalysis(at) ==
    CASE at = "chat1" -> "parse2"
      [] at = "chat2" -> "parse2"
      [] at = "chat3" -> "dispatch"
      [] at = "chat4" -> "toolloop"

\* where process_transcript goes on once the request at a call site has returned
AfterChat(at) ==
    CASE at = "chat1" -> "parse1"
      [] at = "chat2" -> "parse2"
      [] at = "chat3" -> "dispatch"
      [] at = "chat4" -> "toolloop"

\* the request is recorded once per wrapped call, with its first attempt
Issue(params) == IF attempt = 1 THEN Append(requests, params) ELSE requests

\* client.chat.completions.create answers; the caller appends the message
\* (after the fourth request the dispatch loop moves on to the next tool call)
ChatOk ==
    /\ UNCHANGED callVars
    /\ pc \in ChatSites
    /\ LET params == RequestAt(pc, messages) IN
       /\ requests' = Issue(params)
       /\ \E reply \in ServiceReplies(params) : messages' = Append(messages, reply)
    /\ callLog' = <<>>
    /\ attempt' = 1
    /\ toolIdx' = IF pc = "chat4" THEN toolIdx + 1 ELSE toolIdx
    /\ pc' = AfterChat(pc)
    /\ UNCHANGED <<files, fileIdx, processed, chunks, chunkIdx, info_object,
                   tool_calls, dirs, outputFiles, written, stdout, raised, exitStatus>>

\* client.chat.completions.create raises
ChatError ==
    /\ UNCHANGED callVars
    /\ pc \in ChatSites
    /\ requests' = Issue(RequestAt(pc, messages))
    /\ \E e \in ServiceErrors : Failed(e, 0)
    /\ UNCHANGED <<files, fileIdx, processed, chunks, chunkIdx, messages, info_object,
                   tool_calls, toolIdx, dirs, outputFiles, written, stdout>>

\* ------------------------------------------------------------ process_transcript
LastMessage == messages[Len(messages)]

\* info_object = json.loads(first_response.content.strip()), then the second
\* user prompt is appended
ParseFirst ==
    /\ UNCHANGED callVars
    /\ pc = "parse1"
    /\ LET err == json_loads_error(LastMessage.content) IN
       IF err # "none"
       THEN /\ Uncaught(err)
            /\ UNCHANGED <<info_object, messages, stdout>>
       ELSE /\ info_object' = json_loads(LastMessage.content)
            /\ messages' = Append(messages, UserPrompt02)
            /\ stdout' = Append(stdout, "Information analyzed")
            /\ pc' = "chat2"
            /\ UNCHANGED <<raised, exitStatus>>
    /\ UNCHANGED <<files, fileIdx, processed, chunks, chunkIdx, attempt, callLog,
                   requests, tool_calls, toolIdx, dirs, outputFiles, written>>

\* save_file(file_path, content): the directory is made when it is missing,
\* the file is opened for writing and written
save_file(file_path, content) ==
    /\ dirs' = dirs \cup {dirname(file_path)}
    /\ outputFiles' = WriteFile(outputFiles, file_path, content)
    /\ written' = Append(written, [path |-> file_path, content |-> content])

PersistUnchecked(merged) ==
    /\ save_file(OutputPath(DictGetOrNone(merged, "candidate"),
                            DictGetOrNone(merged, "datetime")),
                 json_dumps(merged))
    /\ stdout' = Append(stdout, "Information saved")
    /\ messages' = Append(messages, FollowUpPrompt)
    /\ pc' = "chat3"
    /\ UNCHANGED <<raised, exitStatus>>

\* utils.save_file(os.path.join("output", f"{info_object['candidate']}-
\* {info_object['datetime']}.json"), json.dumps(info_object, indent=4)): the
\* path is formatted first, KeyError for a missing key; then the print and the
\* follow-up prompt
Persist(merged) ==
    IF ~({"candidate", "datetime"} \subseteq Keys(merged))
    THEN /\ Uncaught("KeyError")
         /\ UNCHANGED <<messages, stdout, dirs, outputFiles, written>>
    ELSE /\ save_file(OutputPath(DictGet(merged, "candidate"),
                                 DictGet(merged, "datetime")),
                      json_dumps(merged))
         /\ stdout' = Append(stdout, "Information saved")
         /\ messages' = Append(messages, FollowUpPrompt)
         /\ pc' = "chat3"
         /\ UNCHANGED <<raised, exitStatus>>

\* json.loads of the second reply, info_object.update, and the file is saved
ParseSecond ==
    /\ UNCHANGED callVars
    /\ pc = "parse2"
    /\ IF json_loads_error(LastMessage.content) # "none"
       THEN /\ Uncaught(json_loads_error(LastMessage.content))
            /\ UNCHANGED <<info_object, messages, stdout, dirs, outputFiles, written>>
       ELSE /\ info_object' = dict_update(info_object, json_loads(LastMessage.content))
            /\ Persist(info_object')
    /\ UNCHANGED <<files, fileIdx, processed, chunks, chunkIdx, attempt, callLog,
                   requests, tool_calls, toolIdx>>

DispatchNoneOnly ==
    /\ UNCHANGED callVars
    /\ pc = "dispatch"
    /\ tool_calls' = LastMessage.tool_calls
    /\ toolIdx' = 1
    /\ IF LastMessage.tool_calls.none
       THEN /\ stdout' = Append(stdout, "No function was called")
            /\ pc' = "render"
       ELSE /\ pc' = "toolloop"
            /\ UNCHANGED stdout
    /\ UNCHANGED <<files, fileIdx, processed, chunks, chunkIdx, attempt, callLog,
                   requests, messages, info_object, dirs, outputFiles, written, raised,
                   exitStatus>>

\* tool_calls = third_response.tool_calls; `if tool_calls:` is false for None
\* and for an empty list
Dispatch ==
    /\ UNCHANGED callVars
    /\ pc = "dispatch"
    /\ tool_calls' = LastMessage.tool_calls
    /\ toolIdx' = 1
    /\ IF LastMessage.tool_calls.none \/ Len(LastMessage.tool_calls.calls) = 0
       THEN /\ stdout' = Append(stdout, "No function was called")
            /\ pc' = "render"
       ELSE /\ pc' = "toolloop"
            /\ UNCHANGED stdout
    /\ UNCHANGED <<files, fileIdx, processed, chunks, chunkIdx, attempt, callLog,
                   requests, messages, info_object, dirs, outputFiles, written, raised,
                   exitStatus>>

ToolMessageUncorrelated(tool_call, function_response) ==
    [role |-> "tool", content |-> function_response, tool_calls |-> NoToolCalls,
     tool_call_id |-> 0, name |-> tool_call.function.name]

\* the tool message appended for a call
ToolMessage(tool_call, function_response) ==
    [role |-> "tool", content |-> function_response, tool_calls |-> NoToolCalls,
     tool_call_id |-> tool_call.id, name |-> tool_call.function.name]

\* schedule_follow_up called with the arguments of a tool call
CallFunction(args) ==
    schedule_follow_up(DictGetOrNone(args, "interviewer"),
                       DictGetOrNone(args, "candidate"),
                       DictGetOrNone(args, "interview_date"),
                       DictGetOrNone(args, "sentiment"))

\* args = json.loads(function_message.arguments) and the call: [err, content]
FunctionResponse(function_message) ==
    IF json_loads_error(function_message.arguments) # "none"
    THEN [err |-> json_loads_error(function_message.arguments), content |-> NoContent]
    ELSE CallFunction(json_loads(function_message.arguments))

HandleReplacing(tool_call, function_response) ==
    IF function_response.err # "none"
    THEN /\ Uncaught(function_response.err)
         /\ UNCHANGED messages
    ELSE /\ messages' = [messages EXCEPT
                             ![Len(messages)] = ToolMessage(tool_call, function_response.content)]
         /\ pc' = "chat4"
         /\ UNCHANGED <<raised, exitStatus>>

\* the body of the loop for a schedule_follow_up call, up to the fourth request
Handle(tool_call, function_response) ==
    IF function_response.err # "none"
    THEN /\ Uncaught(function_response.err)
         /\ UNCHANGED messages
    ELSE /\ messages' = Append(messages, ToolMessage(tool_call, function_response.content))
         /\ pc' = "chat4"
         /\ UNCHANGED <<raised, exitStatus>>

ToolCallStepRejecting ==
    /\ UNCHANGED callVars
    /\ pc = "toolloop"
    /\ toolIdx <= Len(tool_calls.calls)
    /\ IF tool_calls.calls[toolIdx].function.name # "schedule_follow_up"
       THEN /\ Uncaught("ValueError")
            /\ UNCHANGED <<messages, toolIdx>>
       ELSE /\ Handle(tool_calls.calls[toolIdx],
                      FunctionResponse(tool_calls.calls[toolIdx].function))
            /\ UNCHANGED toolIdx
    /\ UNCHANGED <<files, fileIdx, processed, chunks, chunkIdx, attempt, callLog,
                   requests, info_object, tool_calls, dirs, outputFiles, written, stdout>>

\* one pass of `for tool_call in tool_calls`: a call of another name is passed over
ToolCallStep ==
    /\ UNCHANGED callVars
    /\ pc = "toolloop"
    /\ toolIdx <= Len(tool_calls.calls)
    /\ IF tool_calls.calls[toolIdx].function.name # "schedule_follow_up"
       THEN /\ toolIdx' = toolIdx + 1
            /\ UNCHANGED <<messages, pc, raised, exitStatus>>
       ELSE /\ Handle(tool_calls.calls[toolIdx],
                      FunctionResponse(tool_calls.calls[toolIdx].function))
            /\ UNCHANGED toolIdx
    /\ UNCHANGED <<files, fileIdx, processed, chunks, chunkIdx, attempt, callLog,
                   requests, info_object, tool_calls, dirs, outputFiles, written, stdout>>

\* the loop over the tool calls is over
ToolLoopEnd ==
    /\ UNCHANGED callVars
    /\ pc = "toolloop"
    /\ toolIdx > Len(tool_calls.calls)
    /\ pc' = "render"
    /\ UNCHANGED <<files, fileIdx, processed, chunks, chunkIdx, attempt, callLog,
                   requests, messages, info_object, tool_calls, toolIdx, dirs,
                   outputFiles, written, stdout, raised, exitStatus>>

\* the line pretty_print_conversation prints for a message
RenderLine(message) ==
    CASE message.role = "system" -> "system:"
      [] message.role = "user" -> "user:"
      [] message.role = "assistant" ->
             IF ~message.tool_calls.none /\ Len(message.tool_calls.calls) > 0
             THEN "assistant: tool_calls" ELSE "assistant: content"
      [] message.role = "tool" -> "function:"

\* utils.pretty_print_conversation(messages); process_transcript returns and
\* the batch loop goes on
Render ==
    /\ UNCHANGED callVars
    /\ pc = "render"
    /\ stdout' = stdout \o [i \in 1..Len(messages) |-> RenderLine(messages[i])]
    /\ fileIdx' = fileIdx + 1
    /\ pc' = "main"
    /\ UNCHANGED <<files, processed, chunks, chunkIdx, attempt, callLog, requests,
                   messages, info_object, tool_calls, toolIdx, dirs, outputFiles, written,
                   raised, exitStatus>>

Next ==
    \/ BatchSkip
    \/ BatchProcess
    \/ BatchExit
    \/ ModerationOk
    \/ ModerationFlagged
    \/ ModerationError
    \/ ModerationPassed
    \/ ChatOk
    \/ ChatError
    \/ ParseFirst
    \/ ParseSecond
    \/ Dispatch
    \/ ToolCallStep
    \/ ToolLoopEnd
    \/ Render

Spec == Init /\ [][Next]_vars

\* ----------------------------------------------- split_text_advanced on its own
\* no batch run is going on
NoRun ==
    /\ files = <<>>
    /\ fileIdx = 0
    /\ processed = <<>>
    /\ chunks = <<>>
    /\ chunkIdx = 1
    /\ attempt = 1
    /\ callLog = <<>>
    /\ requests = <<>>
    /\ messages = <<>>
    /\ info_object = <<>>
    /\ tool_calls = NoToolCalls
    /\ toolIdx = 1
    /\ dirs = {}
    /\ outputFiles = {}
    /\ written = <<>>
    /\ stdout = <<>>
    /\ raised = NoException
    /\ exitStatus = -1

\* the characters of the texts drawn: a letter, the space and the newline
TextChars == {"a", " ", "\n"}

\* split_text_advanced(text, length_limit) is called with a text and a limit above 0
SplitInit ==
    /\ NoRun
    /\ pc = "split_text_advanced"
    /\ callDate = <<>>
    /\ callResponse = NoResponse
    /\ splitText \in SeqsUpTo(TextChars, MaxTextLen)
    /\ splitLimit \in 1..MaxLimit
    /\ splitParagraphs = <<>>
    /\ splitLines = <<>>

\* paragraphs = re.split(r'\n\n|\n(?!\n)', text); lines = []
SplitText ==
    /\ pc = "split_text_advanced"
    /\ splitParagraphs' = ReSplit(splitText, 1, <<>>, <<>>)
    /\ splitLines' = <<>>
    /\ pc' = "wrap"
    /\ UNCHANGED <<runVars, callDate, callResponse, splitText, splitLimit>>

\* one pass of the loop: lines.extend(textwrap.wrap(paragraph, length_limit))
WrapParagraph ==
    /\ pc = "wrap"
    /\ splitParagraphs # <<>>
    /\ splitLines' = splitLines \o textwrap_wrap(Head(splitParagraphs), splitLimit)
    /\ splitParagraphs' = Tail(splitParagraphs)
    /\ UNCHANGED <<pc, runVars, callDate, callResponse, splitText, splitLimit>>

\* return lines
ReturnLines ==
    /\ pc = "wrap"
    /\ splitParagraphs = <<>>
    /\ pc' = "split_returned"
    /\ UNCHANGED <<runVars, callVars>>

SplitNext ==
    \/ SplitText
    \/ WrapParagraph
    \/ ReturnLines

SplitSpec == SplitInit /\ [][SplitNext]_vars

\* ------------------------------------------------ schedule_follow_up on its own
\* the fields of the dates drawn: month ends, a leap day, the year's end, the
\* last year, and days no month has
DateFields ==
    {[err |-> "none", Y |-> y, m |-> m, d |-> d, H |-> c[1], M |-> c[2], S |-> c[3]] :
        y \in {2023, 2024, 9999}, m \in {1, 2, 12}, d \in {1, 22, 25, 28, 29, 31},
        c \in {<<0, 0, 0>>, <<10, 0, 0>>, <<23, 59, 59>>}}

\* a number below 100 written without a leading zero
Unpadded2(n) == IF n < 10 THEN <<DigitChar(n)>> ELSE Pad2(n)

\* the date written YYYY-M-DTH:M:SZ, one digit where one is enough
UnpaddedText(t) ==
    Pad4(t.Y) \o <<"-">> \o Unpadded2(t.m) \o <<"-">> \o Unpadded2(t.d) \o <<"T">>
        \o Unpadded2(t.H) \o <<":">> \o Unpadded2(t.M) \o <<":">> \o Unpadded2(t.S) \o <<"Z">>

\* the text with its letters T and Z in lower case
LowerText(s) ==
    [i \in 1..Len(s) |-> IF s[i] = "T" THEN "t" ELSE IF s[i] = "Z" THEN "z" ELSE s[i]]

\* the interview_date values drawn: dates in the format, the same dates
\* written loosely, and values that are no date at all
DateInputs ==
    {strftime(t) : t \in DateFields}
        \cup {UnpaddedText(t) : t \in DateFields}
        \cup {LowerText(strftime(t)) : t \in DateFields}
        \cup {BadDate, NoneValue, <<>>, SubSeq(GoodDate, 1, 10), Append(GoodDate, " ")}

ScheduleInit ==
    /\ NoRun
    /\ pc = "schedule_follow_up"
    /\ callDate \in DateInputs
    /\ callResponse = NoResponse
    /\ splitText = <<>>
    /\ splitLimit = 0
    /\ splitParagraphs = <<>>
    /\ splitLines = <<>>

\* schedule_follow_up(interviewer, candidate, interview_date, sentiment)
\* returns its JSON text or raises
ScheduleFollowUp ==
    /\ pc = "schedule_follow_up"
    /\ \E sentiment \in {NoneValue, Positive} :
           callResponse' = schedule_follow_up(Interviewer, NameA, callDate, sentiment)
    /\ pc' = "schedule_returned"
    /\ UNCHANGED <<runVars, callDate, splitText, splitLimit, splitParagraphs, splitLines>>

ScheduleNext == ScheduleFollowUp

ScheduleSpec == ScheduleInit /\ [][ScheduleNext]_vars

\* ===================================================================== claims
Outcomes(log) == {log[i].outcome : i \in 1..Len(log)}

\* C1: a chat request whose every attempt raises a transient error calls the
\* service exactly 3 times (never a fourth), and the caller then gets
\* RetryError, which is none of the errors the service raised.
C1_RetriesExhausted ==
    /\ pc \in ChatSites => Len(callLog) < 3
    /\ (pc = "terminated" /\ raised.at \in ChatSites /\ Outcomes(callLog) \subseteq RetryTypes)
           => /\ Len(callLog) = 3
              /\ raised.exc = "RetryError"
              /\ raised.exc \notin Outcomes(callLog)
              /\ \A i \in 1..3 : callLog[i].attempt = i

C1_Witness ==
    /\ pc = "terminated"
    /\ raised = [exc |-> "RetryError", at |-> "chat1"]
    /\ Len(callLog) = 3
    /\ Outcomes(callLog) = RetryTypes

\* C2: in a wrapped call (chat or moderation), an error outside the transient
\* set ends the call at once: it is the last service call, no wait follows it,
\* no further attempt starts, and the caller gets that very error; raised in
\* the first attempt, it leaves the call at exactly 1 attempt and no wait.
C2_NoRetryOnOtherErrors ==
    \A i \in 1..Len(callLog) :
        callLog[i].outcome \in OtherErrors
            => /\ i = Len(callLog)
               /\ callLog[i].wait = 0
               /\ attempt = callLog[i].attempt
               /\ pc = "terminated"
               /\ raised.exc = callLog[i].outcome
               /\ (Outcomes(callLog) \cap RetryTypes = {}
                       => attempt = 1 /\ \A j \in 1..Len(callLog) : callLog[j].wait = 0)

C2_Witness ==
    /\ pc = "terminated"
    /\ raised = [exc |-> "BadRequestError", at |-> "moderation"]
    /\ attempt = 1
    /\ Len(callLog) = 2

\* C3: when moderation flags a chunk of the transcript, the run ends with a
\* non-zero exit status, and no chat request is issued and no file written for
\* that transcript.
C3_FlaggedHalts ==
    /\ ("flagged" \in Outcomes(callLog))
           => pc = "terminated" /\ exitStatus = 1 /\ raised.exc = "SystemExit"
    /\ (\E i \in 1..Len(chunks) : chunks[i])
           => /\ requests = <<>>
              /\ messages = <<>>
              /\ written = <<>>
              /\ outputFiles \in InitialOutputs
              /\ pc = "terminated" => exitStatus # 0

C3_Witness ==
    /\ pc = "terminated"
    /\ raised.exc = "SystemExit"
    /\ chunks = <<FALSE, TRUE>>
    /\ exitStatus = 1
    /\ requests = <<>>

\* the service calls in callLog are those of has_moderation_issues
InModeration == pc = "moderation" \/ raised.at = "moderation"

\* C4: within a scan the chunks are submitted in chunk order; a flagged result
\* is the last call made and the gate returns true on it, so no chunk after
\* the first flagged one is ever submitted; the gate returns false only after
\* a scan in which every chunk was submitted and unflagged.
C4_ShortCircuit ==
    InModeration =>
        /\ \A i \in 1..Len(callLog) :
               /\ callLog[i].chunk =
                      Cardinality({j \in 1..(i - 1) : callLog[j].attempt = callLog[i].attempt}) + 1
               /\ \A c \in 1..(callLog[i].chunk - 1) : ~chunks[c]
               /\ callLog[i].outcome = "ok" => ~chunks[callLog[i].chunk]
               /\ callLog[i].outcome = "flagged"
                      => /\ chunks[callLog[i].chunk]
                         /\ i = Len(callLog)
                         /\ pc = "terminated"
                         /\ raised.exc = "SystemExit"
        /\ (pc = "moderation" /\ chunkIdx > Len(chunks))
               => \A c \in 1..Len(chunks) :
                      /\ ~chunks[c]
                      /\ \E i \in 1..Len(callLog) :
                             /\ callLog[i].attempt = attempt
                             /\ callLog[i].chunk = c
                             /\ callLog[i].outcome = "ok"

C4_Witness ==
    /\ pc = "terminated"
    /\ raised = [exc |-> "SystemExit", at |-> "moderation"]
    /\ chunks = <<TRUE, FALSE>>
    /\ Len(callLog) = 3
    /\ callLog[3].outcome = "flagged"

\* failures of one transcript's processing
TranscriptFailures == {"JSONDecodeError", "AttributeError", "KeyError", "RetryError"}

\* C5: a failure while processing one transcript aborts only that transcript:
\* the run still ends by the batch loop finishing, every ".txt" entry of the
\* directory having been processed.
C5_BatchContinues ==
    (pc = "terminated" /\ raised.exc \in TranscriptFailures)
        => /\ exitStatus = 0
           /\ \A i \in 1..Len(files) : files[i] => \E k \in 1..Len(processed) : processed[k] = i

NotJson(content) == content.kind # "json"

\* C6: when the first reply is not valid JSON, nothing is written and no
\* second, third or fourth chat request is issued; when the second reply is
\* not valid JSON, nothing is written.
C6_MalformedAborts ==
    /\ (Len(messages) >= 3 /\ NotJson(messages[3].content))
           => /\ Len(requests) = 1
              /\ Len(messages) = 3
              /\ written = <<>>
              /\ outputFiles \in InitialOutputs
              /\ pc \in {"parse1", "terminated"}
              /\ pc = "terminated" => raised.at = "parse1" /\ exitStatus = 1
    /\ (Len(messages) >= 5 /\ NotJson(messages[5].content))
           => /\ Len(requests) = 2
              /\ written = <<>>
              /\ outputFiles \in InitialOutputs
              /\ pc \in {"parse2", "terminated"}

C6_Witness ==
    /\ pc = "terminated"
    /\ raised = [exc |-> "JSONDecodeError", at |-> "parse1"]
    /\ messages[3].content = Malformed

\* the names of the members of a JSON object text
Names(content) == {content.pairs[i][1] : i \in 1..Len(content.pairs)}

\* both replies are JSON objects and together lack `candidate` or `datetime`
LacksRequiredKey ==
    /\ Len(messages) >= 5
    /\ ~NotJson(messages[3].content)
    /\ ~NotJson(messages[5].content)
    /\ ~({"candidate", "datetime"} \subseteq (Names(messages[3].content) \cup Names(messages[5].content)))

\* C7: when the merged object lacks `candidate` or `datetime`, persistence
\* fails for the transcript: no file is created or modified and the follow-up
\* request (the one offering the tool) is never issued.
C7_MissingKeyAborts ==
    LacksRequiredKey
        => /\ written = <<>>
           /\ outputFiles \in InitialOutputs
           /\ Len(requests) = 2
           /\ \A i \in 1..Len(requests) : requests[i].tools = NoTools
           /\ pc \in {"parse2", "terminated"}
           /\ pc = "terminated" => raised = [exc |-> "KeyError", at |-> "parse2"]

C7_Witness ==
    /\ LacksRequiredKey
    /\ pc = "terminated"
    /\ raised.exc = "KeyError"
    /\ "candidate" \in Keys(info_object)
    /\ outputFiles # {}

\* the last value a JSON object text gives for a name
LastValue(content, k) ==
    LET i == CHOOSE j \in 1..Len(content.pairs) :
                 /\ content.pairs[j][1] = k
                 /\ \A l \in (j + 1)..Len(content.pairs) : content.pairs[l][1] # k
    IN  content.pairs[i][2]

\* the value of k in the merge of the two replies: the second reply's when it has one
MergedValue(k) ==
    IF k \in Names(messages[5].content) THEN LastValue(messages[5].content, k)
    ELSE LastValue(messages[3].content, k)

\* C8: what is persisted is the merge of the objects of the first and second
\* reply, the second reply's value winning on a collision and every other key
\* of both kept, written once at output/{candidate}-{datetime}.json with the
\* merged values of the two keys.
C8_MergeAndPath ==
    written # <<>>
        => /\ Len(written) = 1
           /\ written[1] \in outputFiles
           /\ written[1].content.kind = "json"
           /\ Names(written[1].content) = Names(messages[3].content) \cup Names(messages[5].content)
           /\ \A i \in 1..Len(written[1].content.pairs) :
                  written[1].content.pairs[i][2] = MergedValue(written[1].content.pairs[i][1])
           /\ Len(written[1].content.pairs) = Cardinality(Names(written[1].content))
           /\ written[1].path = <<"o", "u", "t", "p", "u", "t", "/">> \o MergedValue("candidate")
                                    \o <<"-">> \o MergedValue("datetime")
                                    \o <<".", "j", "s", "o", "n">>
           /\ \A f \in outputFiles : f.path = written[1].path => f = written[1]

C8_Witness ==
    /\ written # <<>>
    /\ LastValue(messages[3].content, "candidate") = NameA
    /\ Names(messages[5].content) = {"candidate"}
    /\ written[1].path = <<"o", "u", "t", "p", "u", "t", "/", "B", "-", "D", "1", ".", "j", "s", "o", "n">>
    /\ Cardinality(outputFiles) = 1

\* C9: every single moderation request has its own budget of 3 attempts: when
\* the scan ends in RetryError, the request of the chunk that failed last was
\* itself attempted 3 times.
C9_PerChunkBudget ==
    (pc = "terminated" /\ raised = [exc |-> "RetryError", at |-> "moderation"])
        => Cardinality({i \in 1..Len(callLog) :
                            callLog[i].chunk = callLog[Len(callLog)].chunk}) = StopAttempts

\* the follow-up reply is there and holds no tool call
ZeroToolCalls ==
    /\ Len(messages) >= 7
    /\ messages[7].tool_calls.none \/ messages[7].tool_calls.calls = <<>>

InStdout(line) == \E i \in 1..Len(stdout) : stdout[i] = line

\* C10: when the follow-up reply holds zero tool calls, "No function was
\* called" is printed, no further chat request is issued, no tool message is
\* appended, no error is raised, and the run goes on to print the whole
\* message sequence.
C10_NoToolCall ==
    ZeroToolCalls
        => /\ Len(requests) = 3
           /\ Len(messages) = 7
           /\ \A i \in 1..Len(messages) : messages[i].role # "tool"
           /\ raised = NoException
           /\ pc \in {"dispatch", "render", "main", "terminated"}
           /\ pc # "dispatch" => InStdout("No function was called")
           /\ pc \in {"main", "terminated"}
                  => /\ SubSeq(stdout, Len(stdout) - 6, Len(stdout))
                            = [i \in 1..7 |-> RenderLine(messages[i])]
                     /\ stdout[Len(stdout) - 7] = "No function was called"
           /\ pc = "terminated" => exitStatus = 0

C10_Witness ==
    /\ ZeroToolCalls
    /\ ~messages[7].tool_calls.none
    /\ pc = "terminated"
    /\ exitStatus = 0
    /\ InStdout("No function was called")
    /\ stdout[Len(stdout)] = "assistant: content"

\* failures other than the moderation rejection that end the run
GenericCrashes ==
    {"JSONDecodeError", "AttributeError", "KeyError", "ValueError", "TypeError",
     "RetryError"} \cup ServiceErrors

\* C11: the exit status of a run ended by an uncaught parse, missing-key,
\* invalid-date or exhausted-retry error differs from the exit status of a
\* moderation rejection.
C11_DistinctExitStatus ==
    (pc = "terminated" /\ raised.exc \in GenericCrashes)
        => exitStatus # ModerationExitStatus

\* C14: the request that offers tools offers exactly schedule_follow_up, with
\* tool choice auto, and carries no JSON response format.
C14_FollowUpRequest ==
    \A i \in 1..Len(requests) :
        (i = 3 \/ requests[i].tools # NoTools)
            => /\ requests[i].tools = <<"schedule_follow_up">>
               /\ requests[i].tool_choice = "auto"
               /\ requests[i].response_format = "unset"

IsPrefix(p, q) == Len(p) <= Len(q) /\ SubSeq(q, 1, Len(p)) = p

\* what process_transcript prints, step by step, before the dispatch
StepLog == <<"Moderation passed", "Information extracted", "Information analyzed",
             "Information saved">>

\* the roles of the message sequence: the two prompts, then reply, prompt,
\* reply, prompt, reply, then a tool message and a reply per handled call
RoleAt(i) ==
    CASE i = 1 -> "system"
      [] i \in {2, 4, 6} -> "user"
      [] i \in {3, 5, 7} -> "assistant"
      [] OTHER -> IF i % 2 = 0 THEN "tool" ELSE "assistant"

\* process_transcript has returned
Rendered == pc \in {"main", "terminated"} /\ processed # <<>> /\ raised = NoException

\* the steps of a run up to the follow-up request, in their order: each
\* request, print, parse and the write happen at their place in the protocol
ProtocolSteps ==
    /\ \A i \in 1..Len(messages) : messages[i].role = RoleAt(i)
    /\ messages # <<>> =>
           /\ IsPrefix(SubSeq(stdout, 1, Min2(Len(stdout), 4)), StepLog)
           /\ Len(stdout) >= 2
           /\ Len(stdout) >= 3 <=> Len(messages) >= 4
           /\ Len(stdout) >= 4 <=> written # <<>>
    /\ messages = <<>> => requests = <<>> /\ written = <<>>
    /\ \A i \in 1..Len(requests) :
           /\ i <= 2 => /\ requests[i].response_format = "json_object"
                         /\ requests[i].tools = NoTools
                         /\ requests[i].messages = SubSeq(messages, 1, 2 * i)
           /\ i = 3 => /\ requests[i].tools # NoTools
                        /\ requests[i].messages = SubSeq(messages, 1, 6)
           /\ i >= 4 => requests[i].tools = NoTools
    /\ Len(written) <= 1
    /\ Len(requests) >= 3 => written # <<>>
    /\ written = <<>> => Len(messages) <= 5
    /\ written # <<>> =>
           /\ Len(messages) >= 6
           /\ messages[4] = UserPrompt02
           /\ messages[6] = FollowUpPrompt
           /\ info_object = dict_update(json_loads(messages[3].content),
                                        json_loads(messages[5].content))
           /\ written[1].content = json_dumps(info_object)
    /\ Rendered =>
           /\ Len(messages) >= 7
           /\ Len(requests) = 3 + (Len(messages) - 7) \div 2
           /\ SubSeq(stdout, Len(stdout) - Len(messages) + 1, Len(stdout))
                  = [i \in 1..Len(messages) |-> RenderLine(messages[i])]
           /\ Len(stdout) - Len(messages) \in {4, 5}

FollowUpExecuted == \E i \in 1..Len(messages) : messages[i].role = "tool"
NoToolCallLogged == \E i \in 1..Len(stdout) : stdout[i] = "No function was called"

\* the follow-up reply holds tool calls, none of them named schedule_follow_up
OnlyUnrecognizedCalls ==
    /\ Len(messages) >= 7
    /\ ~messages[7].tool_calls.none
    /\ messages[7].tool_calls.calls # <<>>
    /\ \A k \in 1..Len(messages[7].tool_calls.calls) :
           messages[7].tool_calls.calls[k].function.name # "schedule_follow_up"

\* C15 as stated: the steps occur in the fixed order, and a run that reaches
\* the rendering has gone through FOLLOWUP_EXECUTED or NO_TOOL_CALL.
C15_FixedOrder ==
    /\ ProtocolSteps
    /\ Rendered => (FollowUpExecuted \/ NoToolCallLogged)

\* C15, amended: the steps occur in the fixed order (first and second request
\* in JSON mode without tools, one write after the merge and before the
\* follow-up request, rendering last), and a run that reaches the rendering
\* has gone through exactly one of FOLLOWUP_EXECUTED, NO_TOOL_CALL, or a
\* follow-up reply whose tool calls all carry unrecognized names, which is
\* neither.
C15_ProtocolOrder ==
    /\ ProtocolSteps
    /\ Rendered =>
           /\ FollowUpExecuted \/ NoToolCallLogged \/ OnlyUnrecognizedCalls
           /\ ~(FollowUpExecuted /\ NoToolCallLogged)
           /\ OnlyUnrecognizedCalls => ~FollowUpExecuted /\ ~NoToolCallLogged
           /\ NoToolCallLogged => stdout[5] = "No function was called" /\ Len(messages) = 7

C15_Witness ==
    /\ Rendered
    /\ pc = "terminated"
    /\ OnlyUnrecognizedCalls
    /\ Len(messages[7].tool_calls.calls) = 2
    /\ Len(stdout) = 11

\* the calls of a reply that are named schedule_follow_up, in the reply's order
ScheduleCalls(calls) ==
    SelectSeq(calls, LAMBDA c : c.function.name = "schedule_follow_up")

\* the tool calls of the follow-up reply
FollowUpCalls == IF Len(messages) >= 7 THEN messages[7].tool_calls.calls ELSE <<>>

ToolMessageCount == Cardinality({i \in 1..Len(messages) : messages[i].role = "tool"})

\* what the Follow-up Scheduler gives for each arguments text a call may carry
SchedulerResults ==
    [a \in ScheduleArguments \ {Malformed} |->
        schedule_follow_up(DictGetOrNone(json_loads(a), "interviewer"),
                           DictGetOrNone(json_loads(a), "candidate"),
                           DictGetOrNone(json_loads(a), "interview_date"),
                           DictGetOrNone(json_loads(a), "sentiment"))]

\* the j-th tool message answers the call `call`, and the request and reply
\* that follow it are the narration round
AnswersCall(j, call) ==
    /\ messages[6 + 2 * j].role = "tool"
    /\ messages[6 + 2 * j].tool_call_id = call.id
    /\ messages[6 + 2 * j].name = "schedule_follow_up"
    /\ messages[6 + 2 * j].content.kind = "json"
    /\ messages[6 + 2 * j].content = SchedulerResults[call.function.arguments].content
    /\ Len(requests) >= 3 + j =>
           /\ requests[3 + j].messages = SubSeq(messages, 1, 6 + 2 * j)
           /\ requests[3 + j].response_format = "unset"
           /\ requests[3 + j].tools = NoTools
           /\ requests[3 + j].tool_choice = "unset"
    /\ Len(messages) >= 7 + 2 * j =>
           /\ messages[7 + 2 * j].role = "assistant"
           /\ Len(requests) >= 3 + j
    /\ (pc = "chat4" /\ Len(messages) = 6 + 2 * j) => Len(requests) \in {2 + j, 3 + j}

\* C16: for each schedule_follow_up call of the follow-up reply, in order, the
\* run appends one tool message with that call's id, the name
\* schedule_follow_up and the scheduler's result for the call's arguments,
\* then issues one chat request without JSON mode and without tools on the
\* sequence ending in that tool message, and appends the reply right after it;
\* a run that reaches the rendering has done so for every such call.
C16_ToolRoundTrip ==
    LET scheduled == ScheduleCalls(FollowUpCalls)
        answered == ToolMessageCount
    IN  /\ answered <= Len(scheduled)
        /\ Len(messages) <= 7 + 2 * answered
        /\ Len(requests) <= 3 + answered
        /\ \A j \in 1..answered : AnswersCall(j, scheduled[j])
        /\ Rendered =>
               /\ answered = Len(scheduled)
               /\ Len(messages) = 7 + 2 * answered
               /\ Len(requests) = 3 + answered

C16_Witness ==
    /\ Rendered
    /\ Len(messages) = 11
    /\ messages[8].tool_call_id = 1
    /\ messages[10].tool_call_id = 2
    /\ messages[8].content.pairs[3]
           = <<"schedule_date", <<"2", "0", "2", "4", "-", "0", "3", "-", "0", "3", "T",
                                  "0", "0", ":", "0", "0", ":", "0", "0", "Z">> >>
    /\ Len(messages[10].content.pairs) = 4
    /\ Len(requests) = 5

\* how many of the first n calls of the follow-up reply are schedule_follow_up calls
HandledAmong(n) == Len(ScheduleCalls(SubSeq(FollowUpCalls, 1, n)))

\* C17: a tool call of another name adds no message, no chat request and no
\* output, and raises nothing: what the loop has added after n calls only
\* counts the schedule_follow_up calls among them, every tool message
\* answers a schedule_follow_up call under that call's own id, "No function
\* was called" is not printed for a reply that holds any tool call, and a
\* reply holding only such calls ends in the rendering of the seven messages
\* with exit status 0.
C17_UnrecognizedIgnored ==
    /\ \A i \in 1..Len(messages) :
           messages[i].role = "tool"
               => /\ messages[i].name = "schedule_follow_up"
                  /\ \E k \in 1..Len(FollowUpCalls) :
                         /\ FollowUpCalls[k].id = messages[i].tool_call_id
                         /\ FollowUpCalls[k].function.name = "schedule_follow_up"
                         /\ i = 6 + 2 * HandledAmong(k)
    /\ FollowUpCalls # <<>> => ~NoToolCallLogged
    /\ pc = "toolloop" =>
           /\ Len(messages) = 7 + 2 * HandledAmong(toolIdx - 1)
           /\ Len(requests) = 3 + HandledAmong(toolIdx - 1)
           /\ stdout = StepLog
    /\ (pc = "terminated" /\ raised.at = "toolloop")
           => /\ FollowUpCalls[toolIdx].function.name = "schedule_follow_up"
              /\ Len(messages) = 7 + 2 * HandledAmong(toolIdx - 1)
    /\ OnlyUnrecognizedCalls =>
           /\ Len(messages) = 7
           /\ Len(requests) = 3
           /\ raised = NoException
           /\ pc \in {"dispatch", "toolloop", "render", "main", "terminated"}
           /\ pc \in {"main", "terminated"}
                  => stdout = StepLog \o [i \in 1..7 |-> RenderLine(messages[i])]
           /\ pc = "terminated" => exitStatus = 0

C17_Witness ==
    /\ Rendered
    /\ Len(FollowUpCalls) = 2
    /\ FollowUpCalls[1].function.name = "other_function"
    /\ FollowUpCalls[2].function.name = "schedule_follow_up"
    /\ Len(messages) = 9
    /\ messages[8].tool_call_id = 2
    /\ Len(requests) = 4

\* the message list sent in each request properly extends the one sent in the
\* request before it, and the sequence extends the last list sent
RequestsExtend ==
    /\ \A i \in 1..Len(requests) : \A j \in (i + 1)..Len(requests) :
           /\ IsPrefix(requests[i].messages, requests[j].messages)
           /\ Len(requests[i].messages) < Len(requests[j].messages)
    /\ \A i \in 1..Len(requests) : IsPrefix(requests[i].messages, messages)

\* C18: every step leaves the message sequence as it was or adds messages at
\* its end, nothing already in it being removed, moved or changed; the list
\* sent in each chat request properly extends the list sent in the request
\* before; and a run of process_transcript starts from a sequence of its own,
\* empty until moderation has passed.
C18_AppendOnly ==
    /\ [](RequestsExtend /\ (pc = "moderation" => messages = <<>>))
    /\ [][IsPrefix(messages, messages')]_vars

C18_Witness ==
    /\ Rendered
    /\ Len(requests) = 5
    /\ Len(requests[1].messages) = 2
    /\ Len(requests[5].messages) = 10
    /\ Len(messages) = 11

\* the text has the shape DDDD-DD-DDTDD:DD:DDZ, D a digit
IsStrictFormat(s) ==
    /\ Len(s) = 20
    /\ \A i \in {1, 2, 3, 4, 6, 7, 9, 10, 12, 13, 15, 16, 18, 19} : s[i] \in Digits
    /\ s[5] = "-" /\ s[8] = "-" /\ s[11] = "T"
    /\ s[14] = ":" /\ s[17] = ":" /\ s[20] = "Z"

\* the fields of a text of that shape
StrictFields(s) ==
    [Y |-> NumVal(s, 1, 4), m |-> NumVal(s, 6, 2), d |-> NumVal(s, 9, 2),
     H |-> NumVal(s, 12, 2), M |-> NumVal(s, 15, 2), S |-> NumVal(s, 18, 2)]

\* the fields are a date and a time of day, and the date 7 days later still
\* has a four-digit year
IsInterviewDate(t) ==
    /\ t.Y >= 1 /\ t.m \in 1..12 /\ t.d \in 1..DaysInMonth(t.Y, t.m)
    /\ t.H <= 23 /\ t.M <= 59 /\ t.S <= 59
    /\ ~(t.Y = 9999 /\ t.m = 12 /\ t.d > 24)

\* the date 7 calendar days later, the time of day kept
SevenDaysLater(t) ==
    IF t.d + 7 <= DaysInMonth(t.Y, t.m) THEN [t EXCEPT !.d = t.d + 7]
    ELSE IF t.m < 12 THEN [t EXCEPT !.m = t.m + 1, !.d = t.d + 7 - DaysInMonth(t.Y, t.m)]
    ELSE [t EXCEPT !.Y = t.Y + 1, !.m = 1, !.d = t.d + 7 - 31]

\* the fields written in the format
StrictText(t) ==
    <<DigitChar(t.Y \div 1000), DigitChar((t.Y \div 100) % 10), DigitChar((t.Y \div 10) % 10),
      DigitChar(t.Y % 10), "-", DigitChar(t.m \div 10), DigitChar(t.m % 10), "-",
      DigitChar(t.d \div 10), DigitChar(t.d % 10), "T",
      DigitChar(t.H \div 10), DigitChar(t.H % 10), ":",
      DigitChar(t.M \div 10), DigitChar(t.M % 10), ":",
      DigitChar(t.S \div 10), DigitChar(t.S % 10), "Z">>

\* the schedule_date of the record returned
ScheduleDateOf(response) == response.content.pairs[3][2]

\* an interview date in the format gets a record whose schedule_date is the
\* date 7 calendar days later in the same format
C12_SevenDaysLater ==
    (pc = "schedule_returned" /\ IsStrictFormat(callDate)
         /\ IsInterviewDate(StrictFields(callDate)))
        => /\ callResponse.err = "none"
           /\ callResponse.content.pairs[3][1] = "schedule_date"
           /\ ScheduleDateOf(callResponse) = StrictText(SevenDaysLater(StrictFields(callDate)))
           /\ callDate = GoodDate
                  => ScheduleDateOf(callResponse)
                         = <<"2", "0", "2", "4", "-", "0", "3", "-", "0", "3", "T",
                             "0", "0", ":", "0", "0", ":", "0", "0", "Z">>

\* an interview_date that is not in the format raises and yields no record
C12_OthersRaise ==
    (pc = "schedule_returned" /\ ~IsStrictFormat(callDate))
        => /\ callResponse.err # "none"
           /\ callResponse.content = NoContent

\* C12: for every interview date in the format YYYY-MM-DDTHH:MM:SSZ the
\* schedule_date returned is the date 7 calendar days later, same time of
\* day, same format, across month ends, year ends and leap days; an input
\* that is not in that format raises an error and yields no record.
C12_SevenDaysStrict == C12_SevenDaysLater /\ C12_OthersRaise

\* the words of a text, in order: its runs of characters other than the space
\* and the newline
RECURSIVE WordsOf(_, _, _)
WordsOf(s, i, acc) ==
    IF i > Len(s) THEN acc
    ELSE IF s[i] \in {" ", "\n"} THEN WordsOf(s, i + 1, acc)
    ELSE IF i > 1 /\ s[i - 1] \notin {" ", "\n"}
    THEN WordsOf(s, i + 1, [acc EXCEPT ![Len(acc)] = Append(acc[Len(acc)], s[i])])
    ELSE WordsOf(s, i + 1, Append(acc, <<s[i]>>))

\* the words of the chunks, chunk after chunk
RECURSIVE ChunkWords(_)
ChunkWords(cs) ==
    IF cs = <<>> THEN <<>> ELSE WordsOf(cs[1], 1, <<>>) \o ChunkWords(Tail(cs))

\* C13: when split_text_advanced has returned, the words of the chunks are the
\* words of the text, each of them whole in one chunk (a word longer than the
\* limit being one chunk by itself), and a chunk whose words are no
\* longer than the limit is no longer than the limit.
C13_NoWordBroken ==
    pc = "split_returned"
        => /\ ChunkWords(splitLines) = WordsOf(splitText, 1, <<>>)
           /\ \A k \in 1..Len(splitLines) :
                  (\A w \in 1..Len(WordsOf(splitLines[k], 1, <<>>)) :
                       Len(WordsOf(splitLines[k], 1, <<>>)[w]) <= splitLimit)
                      => Len(splitLines[k]) <= splitLimit

\* the wait after failed attempt n, for the first attempts
BackoffSchedule == [n \in 1..(2 * StopAttempts + 1) |-> wait_exponential(n)]

\* C19: the wait after failed attempt 1 is the minimum delay, each further
\* wait is twice the one before it until the maximum delay of 30 caps it, so
\* the waits never decrease and never exceed 30; a wrapped call waits at most
\* twice, 2 then 4, only after a transient failure of attempt 1 or 2, and
\* never after the failure of attempt 3.
C19_Backoff ==
    /\ pc = "main" => LET wait == BackoffSchedule IN
           /\ wait = <<2, 4, 8, 16, 30, 30, 30>>
           /\ wait[1] = WaitMin
           /\ \A n \in 1..(2 * StopAttempts) :
                  /\ wait[n] <= 30
                  /\ wait[n + 1] >= wait[n]
                  /\ wait[n + 1] = Min2(2 * wait[n], 30)
    /\ \A i \in 1..Len(callLog) :
           /\ callLog[i].wait > 0
                  <=> (callLog[i].outcome \in RetryTypes /\ callLog[i].attempt < 3)
           /\ callLog[i].wait > 0 => callLog[i].wait = 2 * callLog[i].attempt
           /\ callLog[i].attempt = 3 => callLog[i].wait = 0
           /\ callLog[i].wait > 0 =>
                  /\ attempt > callLog[i].attempt
                  /\ \A j \in 1..Len(callLog) :
                         (j # i /\ callLog[j].wait > 0) => callLog[j].wait # callLog[i].wait

C19_Witness ==
    /\ pc = "terminated"
    /\ raised = [exc |-> "RetryError", at |-> "chat2"]
    /\ [i \in 1..Len(callLog) |-> callLog[i].wait] = <<2, 4, 0>>

\* C20: when the batch loop has finished, every entry of the listing that ends
\* in ".txt" has been processed exactly once, wherever it stands in the
\* listing, and no other entry has been processed.
C20_AllTxtProcessed ==
    (pc = "terminated" /\ raised = NoException)
        => /\ \A i \in 1..Len(files) :
                  files[i] => Cardinality({k \in 1..Len(processed) : processed[k] = i}) = 1
           /\ \A k \in 1..Len(processed) : files[processed[k]]

\* the tool calls of the assistant messages of msgs, as <<position of the
\* message, position of the call>>, that no tool message of msgs after the
\* assistant message answers under the call's id
UnansweredCalls(msgs) ==
    UNION {{<<i, k>> : k \in {c \in 1..Len(msgs[i].tool_calls.calls) :
                                 ~\E j \in (i + 1)..Len(msgs) :
                                     /\ msgs[j].role = "tool"
                                     /\ msgs[j].tool_call_id
                                            = msgs[i].tool_calls.calls[c].id}} :
               i \in {m \in 1..Len(msgs) : msgs[m].role = "assistant"}}

\* C21: every chat request issued carries a message sequence in which each
\* tool call of each assistant message has a tool message with the same
\* tool_call_id, also when the follow-up reply carries several tool calls or
\* a tool call with an unrecognized name.
C21_ToolCallsAnswered ==
    \A r \in 1..Len(requests) : UnansweredCalls(requests[r].messages) = {}

\* the current attempt of has_moderation_issues is one complete scan: its
\* service calls are the last Len(chunks) entries of callLog, one per chunk in
\* chunk order, each answered unflagged, and every earlier entry belongs to an
\* earlier attempt, the last of them a transient failure
ScanComplete ==
    LET n == Len(chunks)
        m == Len(callLog)
    IN  /\ chunkIdx = n + 1
        /\ m >= n
        /\ \A c \in 1..n :
               /\ callLog[m - n + c] = [attempt |-> attempt, chunk |-> c,
                                         outcome |-> "ok", wait |-> 0]
               /\ ~chunks[c]
        /\ \A i \in 1..(m - n) : callLog[i].attempt < attempt
        /\ m > n => callLog[m - n].outcome \in RetryTypes

\* nothing of the chat phase has happened for the transcript
NothingIssued ==
    /\ requests = <<>>
    /\ messages = <<>>
    /\ written = <<>>
    /\ outputFiles \in InitialOutputs

\* the moderation scan has ended in an error instead of a verdict
ScanErrored ==
    /\ pc = "terminated"
    /\ raised.at = "moderation"
    /\ raised.exc # "SystemExit"

\* C22: moderation fails closed. While the scan runs nothing of the chat phase
\* has happened; the run enters the chat phase only by the step that ends one
\* complete scan in which every chunk was answered unflagged, and a chat
\* request is only ever issued in that phase; a scan that ends in an error (a
\* non-transient one, or RetryError after 3 attempts) ends the run with a
\* non-zero status, no chat request and no file written; and a flagged result
\* is the last service call of the run: no scan attempt follows it.
C22_FailsClosed ==
    /\ [](pc = "moderation" => NothingIssued)
    /\ [](ScanErrored =>
              /\ NothingIssued
              /\ exitStatus # 0
              /\ callLog # <<>>
              /\ callLog[Len(callLog)].outcome \in ServiceErrors
              /\ \/ raised.exc = callLog[Len(callLog)].outcome /\ raised.exc \notin RetryTypes
                 \/ /\ raised.exc = "RetryError"
                    /\ callLog[Len(callLog)].attempt = StopAttempts
                    /\ callLog[Len(callLog)].outcome \in RetryTypes)
    /\ [](\A i \in 1..Len(callLog) :
              callLog[i].outcome = "flagged"
                  => /\ i = Len(callLog)
                     /\ pc = "terminated"
                     /\ raised = [exc |-> "SystemExit", at |-> "moderation"]
                     /\ NothingIssued)
    /\ [][(pc \in {"main", "moderation", "terminated"}
               /\ pc' \notin {"main", "moderation", "terminated"})
              => (pc = "moderation" /\ ScanComplete /\ pc' = "chat1")]_vars
    /\ [][requests' # requests =>
              (pc \in ChatSites \/ (pc = "main" /\ requests' = <<>>))]_vars
    /\ [][("flagged" \in Outcomes(callLog) \/ ScanErrored) => UNCHANGED vars]_vars

C22_Witness ==
    /\ ScanErrored
    /\ raised.exc = "RetryError"
    /\ chunks = <<FALSE, FALSE>>
    /\ [i \in 1..Len(callLog) |-> callLog[i].chunk] = <<1, 2, 1, 2, 1, 2>>
    /\ callLog[5].outcome = "ok"
    /\ requests = <<>>

====
